---- MODULE Spec2Model ----
(***************************************************************************)
(* Transcript editor: the project store (segments, speakers, undo/redo     *)
(* history) and the timeline's segment drag controller.                    *)
(*                                                                         *)
(* Times are integers in hundredths of a second (1 unit = 0.01 s).  The    *)
(* JavaScript source computes on doubles; the model computes exactly on    *)
(* this grid.  A time string "MM:SS", "MM:SS.d" or "MM:SS.dd" is the       *)
(* record [ok, mm, cs]: mm is the text before the colon, cs the text after *)
(* it in hundredths of a second.  ok = FALSE is a text without a colon,    *)
(* the digits of the number mm ("9"; mm = 0 also stands for the empty      *)
(* text): parseTime does not accept it.                                    *)
(***************************************************************************)
EXTENDS Integers, Sequences, FiniteSets, TLC

VARIABLES
    segments,           \* store: Segment[]
    speakers,           \* store: Speaker[]
    past,               \* store: HistoryEntry[], newest at the tail
    future,             \* store: HistoryEntry[], newest at the head
    selectedSegmentId,  \* store: string | null
    nextId,             \* number of ids generateId() has handed out
    dragState,          \* Timeline: DragState | null
    snapGuides,         \* Timeline: times at which a guide line shows
    gridSnap,           \* Timeline: grid snapping switched on
    dragLineSnap,       \* Timeline: edge snapping switched on
    autoScroll,         \* Timeline: scrolling during a drag switched on
    autoScrollRef,      \* Timeline: handle of the requested frame, 0 for null
    frames,             \* browser: the pending animation frame callbacks
    framesRun,          \* browser: number of frame callbacks it has run
    scrollLeft,         \* browser: scroll position of the container, in pixels
    isPlaying,          \* player store: playback is running
    playerCurrentTime,  \* player store: currentTime, the playhead
    snap,               \* a call of a snapping function: arguments and result
    codec,              \* a call of formatTime, parseTime: argument and results
    gesture,            \* ghost: the store at pointer-down of the drag and the
                        \* ticks that called updateSegment in the last drag
    lastOp,             \* history variable: the call that produced this state
    rt                  \* history variable: follows an "X, undo, redo" sequence

storeVars == <<segments, speakers, past, future, selectedSegmentId>>
uiVars == <<dragState, snapGuides, gridSnap, dragLineSnap>>
scrollVars == <<autoScroll, autoScrollRef, frames, framesRun, scrollLeft>>
playerVars == <<isPlaying, playerCurrentTime>>
vars == <<segments, speakers, past, future, selectedSegmentId, nextId,
          dragState, snapGuides, gridSnap, dragLineSnap,
          autoScroll, autoScrollRef, frames, framesRun, scrollLeft,
          isPlaying, playerCurrentTime, snap, codec, gesture, lastOp, rt>>

----------------------------------------------------------------------------
(* Bounds of the model *)

MaxHist == 2        \* mutating calls are issued while Len(past) < MaxHist
MaxIds == 1         \* number of segments addSegment may create

Null == "null"      \* selectedSegmentId = null
NoSpeaker == ""     \* addSegment's speakerId argument left out (falsy)

\* dragState = null
NoDrag == [segmentId |-> "", mode |-> "none", initialX |-> 0,
           initialStartTime |-> 0, initialEndTime |-> 0]

\* no drag gesture yet
NoGesture == [segments |-> <<>>, past |-> <<>>, ticks |-> 0, beforeLast |-> <<>>]

\* neither formatTime nor parseTime has been called
NoCodec == [fn |-> "none", seconds |-> 0,
            text |-> [ok |-> FALSE, mm |-> 0, cs |-> 0], parsed |-> 0]

\* no snapping function has been called
SnapNone == [fn |-> "none", time |-> 0, targets |-> <<>>,
             config |-> [gridEnabled |-> FALSE, gridInterval |-> 0,
                         edgeEnabled |-> FALSE, edgeThreshold |-> 0],
             out |-> [time |-> 0, snapped |-> FALSE], again |-> 0]

----------------------------------------------------------------------------
(* Time codec, src/src/lib/utils.ts *)

T(mm, cs) == [ok |-> TRUE, mm |-> mm, cs |-> cs]

\* formatTime that rolls the minutes over at an hour
formatTimeRollsOver(seconds) ==
    LET mins == (seconds \div 6000) % 60
        secs == IF seconds >= 0 THEN seconds % 6000 ELSE -((-seconds) % 6000)
        secsRounded == ((secs + 5) \div 10) * 10
    IN  T(mins, secsRounded)

\* mins is Math.floor(seconds / 60); secs = seconds % 60 has the sign of
\* seconds; Math.round(secs * 10) / 10 rounds halves up to a tenth of a
\* second; the result is the text "mm:ss" or "mm:ss.d".
formatTime(seconds) ==
    LET mins == seconds \div 6000
        secs == IF seconds >= 0 THEN seconds % 6000 ELSE -((-seconds) % 6000)
        secsRounded == ((secs + 5) \div 10) * 10
    IN  T(mins, secsRounded)

parseTime(timeStr) ==
    IF ~timeStr.ok THEN 0 ELSE timeStr.mm * 6000 + timeStr.cs

\* generateId(): the k-th id handed out
generateId(k) == "id-" \o ToString(k)

----------------------------------------------------------------------------
(* Array helpers *)

\* { ...s, ...updates }: the fields of updates replace those of s
Merge(s, updates) ==
    [f \in DOMAIN s |-> IF f \in DOMAIN updates THEN updates[f] ELSE s[f]]

Range(s) == {s[i] : i \in DOMAIN s}

Front(s) == SubSeq(s, 1, Len(s) - 1)

Last(s) == s[Len(s)]

----------------------------------------------------------------------------
(* Program constants, src/src/types/index.ts *)

DEFAULT_SPEAKERS ==
    << [id |-> "speaker_1", name |-> "Narrator", color |-> "#3b82f6"],
       [id |-> "speaker_2", name |-> "French Narrator", color |-> "#f97316"],
       [id |-> "speaker_3", name |-> "Male Speaker", color |-> "#a855f7"],
       [id |-> "speaker_4", name |-> "Female Speaker", color |-> "#ec4899"] >>

defaultDuration == 300      \* addSegment: 3 seconds

----------------------------------------------------------------------------
(* Project store, src/src/stores/project-store.ts.  Every operation maps    *)
(* the store state st = get() to the state after its set({...}).           *)

St == [segments |-> segments, speakers |-> speakers, past |-> past,
       future |-> future, selectedSegmentId |-> selectedSegmentId]

\* { segments: state.segments, speakers: state.speakers }
HistoryEntry(st) == [segments |-> st.segments, speakers |-> st.speakers]

setSelectedSegmentId(st, id) == [st EXCEPT !.selectedSegmentId = id]

setProjectData(st, segs, spks) ==
    [st EXCEPT !.past = Append(st.past, HistoryEntry(st)),
               !.future = <<>>,
               !.segments = segs,
               !.speakers = spks]

\* addSegment's comparator key: startTime.split(":").reduce((acc, t, i) =>
\* acc + Number(t) * (i === 0 ? 60 : 1), 0).  The part before the first colon
\* counts as minutes also when there is no colon.
SortKey(timeStr) ==
    IF timeStr.ok THEN timeStr.mm * 6000 + timeStr.cs ELSE timeStr.mm * 6000

\* aStart - bStart
CompareStart(a, b) == SortKey(a.startTime) - SortKey(b.startTime)

RECURSIVE InsertSorted(_, _)
InsertSorted(sorted, x) ==
    IF sorted = <<>> THEN <<x>>
    ELSE IF CompareStart(Last(sorted), x) > 0
         THEN Append(InsertSorted(Front(sorted), x), Last(sorted))
         ELSE Append(sorted, x)

\* Array.prototype.sort with CompareStart: a stable sort
RECURSIVE SortByStart(_)
SortByStart(s) ==
    IF s = <<>> THEN <<>>
    ELSE InsertSorted(SortByStart(Front(s)), Last(s))

addSegment(st, currentTime, speakerId, newId) ==
    LET targetSpeakerId ==
            IF speakerId # NoSpeaker THEN speakerId
            ELSE IF st.speakers # <<>> THEN st.speakers[1].id
            ELSE "speaker_1"
        newSegment == [id |-> newId,
                       speakerId |-> targetSpeakerId,
                       startTime |-> formatTime(currentTime),
                       endTime |-> formatTime(currentTime + defaultDuration),
                       text |-> ""]
        newSegments == SortByStart(Append(st.segments, newSegment))
    IN  [st EXCEPT !.past = Append(st.past, HistoryEntry(st)),
                   !.future = <<>>,
                   !.segments = newSegments,
                   !.selectedSegmentId = newId]

\* updateSegment that sorts the segments by start time after the merge
updateSegmentResorts(st, id, updates) ==
    LET newSegments ==
            [i \in DOMAIN st.segments |->
                IF st.segments[i].id = id THEN Merge(st.segments[i], updates)
                ELSE st.segments[i]]
    IN  [st EXCEPT !.past = Append(st.past, HistoryEntry(st)),
                   !.future = <<>>,
                   !.segments = SortByStart(newSegments)]

\* updateSegment that leaves the redo stack alone
updateSegmentKeepsFuture(st, id, updates) ==
    LET newSegments ==
            [i \in DOMAIN st.segments |->
                IF st.segments[i].id = id THEN Merge(st.segments[i], updates)
                ELSE st.segments[i]]
    IN  [st EXCEPT !.past = Append(st.past, HistoryEntry(st)),
                   !.segments = newSegments]

updateSegment(st, id, updates) ==
    LET newSegments ==
            [i \in DOMAIN st.segments |->
                IF st.segments[i].id = id THEN Merge(st.segments[i], updates)
                ELSE st.segments[i]]
    IN  [st EXCEPT !.past = Append(st.past, HistoryEntry(st)),
                   !.future = <<>>,
                   !.segments = newSegments]

\* deleteSegment that records history only when a segment was removed
deleteSegmentSkipsHistory(st, id) ==
    IF \A i \in DOMAIN st.segments : st.segments[i].id # id THEN st
    ELSE [st EXCEPT !.past = Append(st.past, HistoryEntry(st)),
                    !.future = <<>>,
                    !.segments = SelectSeq(st.segments, LAMBDA s : s.id # id),
                    !.selectedSegmentId =
                        IF st.selectedSegmentId = id THEN Null ELSE st.selectedSegmentId]

deleteSegment(st, id) ==
    [st EXCEPT !.past = Append(st.past, HistoryEntry(st)),
               !.future = <<>>,
               !.segments = SelectSeq(st.segments, LAMBDA s : s.id # id),
               !.selectedSegmentId =
                    IF st.selectedSegmentId = id THEN Null ELSE st.selectedSegmentId]

\* updateSpeaker that adds a speaker when no speaker has the id
updateSpeakerUpserts(st, id, updates) ==
    LET newSpeakers ==
            IF \E i \in DOMAIN st.speakers : st.speakers[i].id = id
            THEN [i \in DOMAIN st.speakers |->
                    IF st.speakers[i].id = id THEN Merge(st.speakers[i], updates)
                    ELSE st.speakers[i]]
            ELSE Append(st.speakers,
                        Merge([id |-> id, name |-> "", color |-> ""], updates))
    IN  [st EXCEPT !.past = Append(st.past, HistoryEntry(st)),
                   !.future = <<>>,
                   !.speakers = newSpeakers]

updateSpeaker(st, id, updates) ==
    LET newSpeakers ==
            [i \in DOMAIN st.speakers |->
                IF st.speakers[i].id = id THEN Merge(st.speakers[i], updates)
                ELSE st.speakers[i]]
    IN  [st EXCEPT !.past = Append(st.past, HistoryEntry(st)),
                   !.future = <<>>,
                   !.speakers = newSpeakers]

\* deleteSpeaker without the cascade to the segments
deleteSpeakerNoCascade(st, id) ==
    [st EXCEPT !.past = Append(st.past, HistoryEntry(st)),
               !.future = <<>>,
               !.speakers = SelectSeq(st.speakers, LAMBDA s : s.id # id)]

deleteSpeaker(st, id) ==
    [st EXCEPT !.past = Append(st.past, HistoryEntry(st)),
               !.future = <<>>,
               !.speakers = SelectSeq(st.speakers, LAMBDA s : s.id # id),
               !.segments = SelectSeq(st.segments, LAMBDA s : s.speakerId # id)]

\* mergeSpeakers that reassigns the segments but keeps the merged speaker
mergeSpeakersKeepsSpeaker(st, fromId, toId) ==
    [st EXCEPT !.past = Append(st.past, HistoryEntry(st)),
               !.future = <<>>,
               !.segments = [i \in DOMAIN st.segments |->
                    IF st.segments[i].speakerId = fromId
                    THEN [st.segments[i] EXCEPT !.speakerId = toId]
                    ELSE st.segments[i]]]

mergeSpeakers(st, fromId, toId) ==
    [st EXCEPT !.past = Append(st.past, HistoryEntry(st)),
               !.future = <<>>,
               !.segments = [i \in DOMAIN st.segments |->
                    IF st.segments[i].speakerId = fromId
                    THEN [st.segments[i] EXCEPT !.speakerId = toId]
                    ELSE st.segments[i]],
               !.speakers = SelectSeq(st.speakers, LAMBDA s : s.id # fromId)]

\* the array element undefined, which splice(fromIndex, 1) hands out as
\* moved when it removed nothing
Undefined == [id |-> "undefined", name |-> "undefined", color |-> "undefined"]

\* where Array.prototype.splice starts in an array of length len: a negative
\* start counts from the end, and the result is kept within 0..len
SpliceStart(start, len) ==
    IF start < 0 THEN (IF len + start < 0 THEN 0 ELSE len + start)
    ELSE IF start > len THEN len ELSE start

\* splice(fromIndex, 1) then splice(toIndex, 0, moved); indices are 0-based,
\* as in the source
reorderSpeakers(st, fromIndex, toIndex) ==
    LET n == Len(st.speakers)
        from == SpliceStart(fromIndex, n)
        moved == IF from < n THEN st.speakers[from + 1] ELSE Undefined
        removed == SubSeq(st.speakers, 1, from) \o SubSeq(st.speakers, from + 2, n)
        to == SpliceStart(toIndex, Len(removed))
        newSpeakers == SubSeq(removed, 1, to) \o <<moved>>
                       \o SubSeq(removed, to + 1, Len(removed))
    IN  [st EXCEPT !.past = Append(st.past, HistoryEntry(st)),
                   !.future = <<>>,
                   !.speakers = newSpeakers]

\* undo that restores the segments but not the speakers
undoSegmentsOnly(st) ==
    IF Len(st.past) = 0 THEN st
    ELSE LET previous == st.past[Len(st.past)]
             newPast == SubSeq(st.past, 1, Len(st.past) - 1)
         IN  [st EXCEPT !.past = newPast,
                        !.future = <<HistoryEntry(st)>> \o st.future,
                        !.segments = previous.segments]

undo(st) ==
    IF Len(st.past) = 0 THEN st
    ELSE LET previous == st.past[Len(st.past)]
             newPast == SubSeq(st.past, 1, Len(st.past) - 1)
         IN  [st EXCEPT !.past = newPast,
                        !.future = <<HistoryEntry(st)>> \o st.future,
                        !.segments = previous.segments,
                        !.speakers = previous.speakers]

\* redo that does not put the present on the past stack
redoDropsPresent(st) ==
    IF Len(st.future) = 0 THEN st
    ELSE LET next == st.future[1]
             newFuture == SubSeq(st.future, 2, Len(st.future))
         IN  [st EXCEPT !.future = newFuture,
                        !.segments = next.segments,
                        !.speakers = next.speakers]

\* redo that clears the selection before it looks at the stack
redoClearsSelection(st) ==
    IF Len(st.future) = 0 THEN [st EXCEPT !.selectedSegmentId = Null]
    ELSE LET next == st.future[1]
             newFuture == SubSeq(st.future, 2, Len(st.future))
         IN  [st EXCEPT !.past = Append(st.past, HistoryEntry(st)),
                        !.future = newFuture,
                        !.segments = next.segments,
                        !.speakers = next.speakers,
                        !.selectedSegmentId = Null]

redo(st) ==
    IF Len(st.future) = 0 THEN st
    ELSE LET next == st.future[1]
             newFuture == SubSeq(st.future, 2, Len(st.future))
         IN  [st EXCEPT !.past = Append(st.past, HistoryEntry(st)),
                        !.future = newFuture,
                        !.segments = next.segments,
                        !.speakers = next.speakers]

canUndo(st) == Len(st.past) > 0

canRedo(st) == Len(st.future) > 0

----------------------------------------------------------------------------
(* History variables *)

Mutating == {"setProjectData", "addSegment", "updateSegment", "deleteSegment",
             "updateSpeaker", "deleteSpeaker", "mergeSpeakers", "reorderSpeakers"}

\* the call, its arguments (a, b: ids; m, n: numbers) and, for a mutating
\* call, whether the call before it was an undo()
Op(name, a, b, m, n) ==
    [op |-> name, a |-> a, b |-> b, m |-> m, n |-> n,
     afterUndo |-> (lastOp.op = "undo" /\ name \in Mutating)]

RtIdle == [phase |-> "idle", before |-> [segments |-> <<>>, speakers |-> <<>>],
           after |-> [segments |-> <<>>, speakers |-> <<>>]]

\* rt after a single mutating call that took the store from St to new
RtOp(new) == [phase |-> "op", before |-> HistoryEntry(St), after |-> HistoryEntry(new)]

RtUndo == IF rt.phase = "op" THEN [rt EXCEPT !.phase = "undone"] ELSE RtIdle

RtRedo == IF rt.phase = "undone" THEN [rt EXCEPT !.phase = "redone"] ELSE RtIdle

\* set(new): the store takes the state new
Set(new) ==
    /\ segments' = new.segments
    /\ speakers' = new.speakers
    /\ past' = new.past
    /\ future' = new.future
    /\ selectedSegmentId' = new.selectedSegmentId

----------------------------------------------------------------------------
(* Inputs of the store calls *)

\* the fixture of the store's tests
TestSegments ==
    << [id |-> "1", speakerId |-> "speaker_1", startTime |-> T(0, 0),
        endTime |-> T(0, 500), text |-> "Hello"],
       [id |-> "2", speakerId |-> "speaker_2", startTime |-> T(0, 500),
        endTime |-> T(0, 1000), text |-> "World"] >>

SegmentIdInputs == {"1", generateId(1), "nope"}

\* the last one is the text "9" in the start field
SegmentUpdateInputs ==
    { [text |-> "Changed"],
      [speakerId |-> "speaker_2"],
      [startTime |-> T(0, 100), endTime |-> T(0, 250)],
      [startTime |-> [ok |-> FALSE, mm |-> 9, cs |-> 0]] }

SpeakerIdInputs == {"speaker_1", "speaker_2", "speaker_9"}

SpeakerUpdateInputs == { [name |-> "Alice"] }

\* <<fromId, toId>>
MergeInputs == { <<"speaker_2", "speaker_1">>, <<"speaker_1", "speaker_1">>,
                 <<"speaker_9", "speaker_1">>, <<"speaker_1", "speaker_9">> }

CurrentTimeInputs == {200, 1234}

IndexInputs == {0, 2}

----------------------------------------------------------------------------
(* The store driven through its interface *)

Init ==
    /\ segments \in {<<>>, TestSegments}    \* fresh, or rehydrated by persist
    /\ speakers = DEFAULT_SPEAKERS
    /\ past = <<>>
    /\ future = <<>>
    /\ selectedSegmentId = Null
    /\ nextId = 0
    /\ dragState = NoDrag
    /\ snapGuides = <<>>
    /\ gridSnap = TRUE
    /\ dragLineSnap = TRUE
    /\ autoScroll = TRUE
    /\ autoScrollRef = 0
    /\ frames = {}
    /\ framesRun = 0
    /\ scrollLeft = 0
    /\ isPlaying = FALSE
    /\ playerCurrentTime = 0
    /\ codec = NoCodec
    /\ gesture = NoGesture
    /\ snap = SnapNone
    /\ lastOp = [op |-> "init", a |-> "", b |-> "", m |-> 0, n |-> 0, afterUndo |-> FALSE]
    /\ rt = RtIdle

Room(k) == Len(past) + k <= MaxHist

SetSelectedSegmentId ==
    \E id \in ({"2"} \cap {s.id : s \in Range(segments)}) \cup {Null} :
        /\ Set(setSelectedSegmentId(St, id))
        /\ lastOp' = Op("setSelectedSegmentId", id, "", 0, 0)
        /\ rt' = RtIdle
        /\ UNCHANGED <<nextId, uiVars, scrollVars, playerVars, snap, codec, gesture>>

SetProjectData ==
    /\ Room(1)
    /\ LET new == setProjectData(St, TestSegments, DEFAULT_SPEAKERS)
       IN  Set(new) /\ rt' = RtOp(new)
    /\ lastOp' = Op("setProjectData", "", "", 0, 0)
    /\ UNCHANGED <<nextId, uiVars, scrollVars, playerVars, snap, codec, gesture>>

AddSegment ==
    \E t \in CurrentTimeInputs, spk \in {NoSpeaker, "speaker_2"} :
        /\ Room(1)
        /\ nextId < MaxIds
        /\ nextId' = nextId + 1
        /\ LET new == addSegment(St, t, spk, generateId(nextId + 1))
           IN  Set(new) /\ rt' = RtOp(new)
        /\ lastOp' = Op("addSegment", generateId(nextId + 1), spk, t, 0)
        /\ UNCHANGED <<uiVars, scrollVars, playerVars, snap, codec, gesture>>

UpdateSegment ==
    \E id \in SegmentIdInputs, u \in SegmentUpdateInputs :
        /\ Room(1)
        /\ LET new == updateSegment(St, id, u)
           IN  Set(new) /\ rt' = RtOp(new)
        /\ lastOp' = Op("updateSegment", id, "", 0, 0)
        /\ UNCHANGED <<nextId, uiVars, scrollVars, playerVars, snap, codec, gesture>>

DeleteSegment ==
    \E id \in SegmentIdInputs :
        /\ Room(1)
        /\ LET new == deleteSegment(St, id)
           IN  Set(new) /\ rt' = RtOp(new)
        /\ lastOp' = Op("deleteSegment", id, "", 0, 0)
        /\ UNCHANGED <<nextId, uiVars, scrollVars, playerVars, snap, codec, gesture>>

UpdateSpeaker ==
    \E id \in SpeakerIdInputs, u \in SpeakerUpdateInputs :
        /\ Room(1)
        /\ LET new == updateSpeaker(St, id, u)
           IN  Set(new) /\ rt' = RtOp(new)
        /\ lastOp' = Op("updateSpeaker", id, "", 0, 0)
        /\ UNCHANGED <<nextId, uiVars, scrollVars, playerVars, snap, codec, gesture>>

DeleteSpeaker ==
    \E id \in SpeakerIdInputs :
        /\ Room(1)
        /\ LET new == deleteSpeaker(St, id)
           IN  Set(new) /\ rt' = RtOp(new)
        /\ lastOp' = Op("deleteSpeaker", id, "", 0, 0)
        /\ UNCHANGED <<nextId, uiVars, scrollVars, playerVars, snap, codec, gesture>>

MergeSpeakers ==
    \E in \in MergeInputs :
        /\ Room(1)
        /\ LET new == mergeSpeakers(St, in[1], in[2])
           IN  Set(new) /\ rt' = RtOp(new)
        /\ lastOp' = Op("mergeSpeakers", in[1], in[2], 0, 0)
        /\ UNCHANGED <<nextId, uiVars, scrollVars, playerVars, snap, codec, gesture>>

ReorderSpeakers ==
    \E fromIndex \in IndexInputs, toIndex \in IndexInputs :
        /\ Room(1)
        /\ fromIndex < Len(speakers)
        /\ toIndex < Len(speakers)
        /\ LET new == reorderSpeakers(St, fromIndex, toIndex)
           IN  Set(new) /\ rt' = RtOp(new)
        /\ lastOp' = Op("reorderSpeakers", "", "", fromIndex, toIndex)
        /\ UNCHANGED <<nextId, uiVars, scrollVars, playerVars, snap, codec, gesture>>

\* lastOp.m is the length of the stack the call found
Undo ==
    /\ Set(undo(St))
    /\ lastOp' = Op("undo", "", "", Len(past), 0)
    /\ rt' = RtUndo
    /\ UNCHANGED <<nextId, uiVars, scrollVars, playerVars, snap, codec, gesture>>

Redo ==
    /\ Set(redo(St))
    /\ lastOp' = Op("redo", "", "", Len(future), 0)
    /\ rt' = RtRedo
    /\ UNCHANGED <<nextId, uiVars, scrollVars, playerVars, snap, codec, gesture>>

\* fields given to updateSegment: a text, a speaker, a start after the next
\* segment's start and after the segment's own end, an end 0.1 s after the
\* start of the fixture's first segment, and both bounds
UpdateFieldInputs ==
    << [text |-> "Changed"],
       [speakerId |-> "speaker_2"],
       [startTime |-> T(0, 700)],
       [endTime |-> T(0, 10)],
       [startTime |-> T(0, 100), endTime |-> T(0, 250)] >>

\* lastOp.m is the index of the fields in UpdateFieldInputs
UpdateSegmentFields ==
    \E id \in SegmentIdInputs, k \in DOMAIN UpdateFieldInputs :
        /\ Room(1)
        /\ LET new == updateSegment(St, id, UpdateFieldInputs[k])
           IN  Set(new) /\ rt' = RtOp(new)
        /\ lastOp' = Op("updateSegment", id, "", k, 0)
        /\ UNCHANGED <<nextId, uiVars, scrollVars, playerVars, snap, codec, gesture>>

NextUpdate ==
    \/ SetSelectedSegmentId
    \/ SetProjectData
    \/ UpdateSegmentFields

\* segments updated through the store
SpecUpdate == Init /\ [][NextUpdate]_vars

\* reorderSpeakers called with any two indices, also outside the roster
AnyIndexInputs == -1 .. (Len(DEFAULT_SPEAKERS) + 1)

ReorderSpeakersAny ==
    \E fromIndex \in AnyIndexInputs, toIndex \in AnyIndexInputs :
        /\ Room(1)
        /\ LET new == reorderSpeakers(St, fromIndex, toIndex)
           IN  Set(new) /\ rt' = RtOp(new)
        /\ lastOp' = Op("reorderSpeakers", "", "", fromIndex, toIndex)
        /\ UNCHANGED <<nextId, uiVars, scrollVars, playerVars, snap, codec, gesture>>

NextReorder ==
    \/ SetProjectData
    \/ ReorderSpeakersAny

\* the roster reordered through the store with indices of any value
SpecReorder == Init /\ [][NextReorder]_vars

Next ==
    \/ SetSelectedSegmentId
    \/ SetProjectData
    \/ AddSegment
    \/ UpdateSegment
    \/ DeleteSegment
    \/ UpdateSpeaker
    \/ DeleteSpeaker
    \/ MergeSpeakers
    \/ ReorderSpeakers
    \/ Undo
    \/ Redo

Spec == Init /\ [][Next]_vars

----------------------------------------------------------------------------
(* The store driven by calls that name speakers of the roster *)

RosterIds(st) == {st.speakers[i].id : i \in 1..Len(st.speakers)}

\* the default project, and a project whose roster has one speaker left
RefProjects ==
    { <<TestSegments, DEFAULT_SPEAKERS>>,
      <<SubSeq(TestSegments, 1, 1), SubSeq(DEFAULT_SPEAKERS, 1, 1)>> }

InitRefs ==
    /\ \E project \in RefProjects : segments = project[1] /\ speakers = project[2]
    /\ past = <<>>
    /\ future = <<>>
    /\ selectedSegmentId = Null
    /\ nextId = 0
    /\ dragState = NoDrag
    /\ snapGuides = <<>>
    /\ gridSnap = TRUE
    /\ dragLineSnap = TRUE
    /\ autoScroll = TRUE
    /\ autoScrollRef = 0
    /\ frames = {}
    /\ framesRun = 0
    /\ scrollLeft = 0
    /\ isPlaying = FALSE
    /\ playerCurrentTime = 0
    /\ codec = NoCodec
    /\ gesture = NoGesture
    /\ snap = SnapNone
    /\ lastOp = [op |-> "init", a |-> "", b |-> "", m |-> 0, n |-> 0, afterUndo |-> FALSE]
    /\ rt = RtIdle

\* addSegment with the speaker left out or taken from the roster
AddSegmentFromRoster ==
    \E t \in CurrentTimeInputs, spk \in {NoSpeaker} \cup RosterIds(St) :
        /\ Room(1)
        /\ nextId < MaxIds
        /\ nextId' = nextId + 1
        /\ LET new == addSegment(St, t, spk, generateId(nextId + 1))
           IN  Set(new) /\ rt' = RtOp(new)
        /\ lastOp' = Op("addSegment", generateId(nextId + 1), spk, t, 0)
        /\ UNCHANGED <<uiVars, scrollVars, playerVars, snap, codec, gesture>>

\* mergeSpeakers into a speaker of the roster
MergeIntoRoster ==
    \E fromId \in SpeakerIdInputs, toId \in RosterIds(St) :
        /\ Room(1)
        /\ LET new == mergeSpeakers(St, fromId, toId)
           IN  Set(new) /\ rt' = RtOp(new)
        /\ lastOp' = Op("mergeSpeakers", fromId, toId, 0, 0)
        /\ UNCHANGED <<nextId, uiVars, scrollVars, playerVars, snap, codec, gesture>>

NextRefs ==
    \/ AddSegmentFromRoster
    \/ DeleteSegment
    \/ DeleteSpeaker
    \/ MergeIntoRoster
    \/ UpdateSpeaker
    \/ ReorderSpeakers
    \/ Undo
    \/ Redo

SpecRefs == InitRefs /\ [][NextRefs]_vars

----------------------------------------------------------------------------
(* The store driven by calls that select segments of the store *)

\* setSelectedSegmentId with the id of a segment of the store
SelectExistingSegment ==
    \E i \in 1..Len(segments) :
        /\ selectedSegmentId' = segments[i].id
        /\ lastOp' = Op("setSelectedSegmentId", segments[i].id, "", 0, 0)
        /\ rt' = RtIdle
        /\ UNCHANGED <<segments, speakers, past, future, nextId, uiVars, scrollVars,
                       playerVars, snap, codec, gesture>>

NextSelect ==
    \/ SelectExistingSegment
    \/ AddSegment
    \/ DeleteSegment
    \/ DeleteSpeaker
    \/ SetProjectData
    \/ Undo
    \/ Redo

SpecSelect == Init /\ [][NextSelect]_vars

----------------------------------------------------------------------------
(* Snapping, src/src/lib/timeline-utils.ts *)

Max(a, b) == IF a >= b THEN a ELSE b

Abs(x) == IF x >= 0 THEN x ELSE -x

\* snapToGrid that moves to the next grid line above the time
snapToGridNextLine(time, interval, enabled) ==
    IF ~enabled \/ interval <= 0 THEN time
    ELSE (time \div interval + 1) * interval

\* Math.round(time / interval) * interval; Math.round rounds halves up
snapToGrid(time, interval, enabled) ==
    IF ~enabled \/ interval <= 0 THEN time
    ELSE ((2 * time + interval) \div (2 * interval)) * interval

\* the for loop of snapToEdge: the value of closestTarget after the targets
RECURSIVE ClosestTarget(_, _, _, _)
ClosestTarget(targets, time, minDistance, closestTarget) ==
    IF targets = <<>> THEN closestTarget
    ELSE LET target == Head(targets)
             distance == Abs(time - target)
         IN  IF distance < minDistance
             THEN ClosestTarget(Tail(targets), time, distance, target)
             ELSE ClosestTarget(Tail(targets), time, minDistance, closestTarget)

\* snapToEdge that also takes a target at distance threshold
snapToEdgeInclusive(time, targets, threshold, enabled) ==
    IF ~enabled \/ Len(targets) = 0 THEN [time |-> time, snapped |-> FALSE]
    ELSE LET closestTarget == ClosestTarget(targets, time, threshold + 1, time)
         IN  [time |-> closestTarget, snapped |-> closestTarget # time]

snapToEdge(time, targets, threshold, enabled) ==
    IF ~enabled \/ Len(targets) = 0 THEN [time |-> time, snapped |-> FALSE]
    ELSE LET closestTarget == ClosestTarget(targets, time, threshold, time)
         IN  [time |-> closestTarget, snapped |-> closestTarget # time]

\* snapTime that reports a grid snap as snapped
snapTimeFlagsGrid(time, targets, config) ==
    LET edgeResult == snapToEdge(time, targets, config.edgeThreshold, config.edgeEnabled)
        gridSnapped == snapToGrid(time, config.gridInterval, config.gridEnabled)
    IN  IF edgeResult.snapped THEN edgeResult
        ELSE [time |-> gridSnapped, snapped |-> gridSnapped # time]

snapTime(time, targets, config) ==
    LET edgeResult == snapToEdge(time, targets, config.edgeThreshold, config.edgeEnabled)
        gridSnapped == snapToGrid(time, config.gridInterval, config.gridEnabled)
    IN  IF edgeResult.snapped THEN edgeResult
        ELSE [time |-> gridSnapped, snapped |-> FALSE]

RECURSIVE getSegmentEdgeTimes(_, _)
getSegmentEdgeTimes(segs, excludeId) ==
    IF segs = <<>> THEN <<>>
    ELSE IF Head(segs).id = excludeId THEN getSegmentEdgeTimes(Tail(segs), excludeId)
    ELSE <<parseTime(Head(segs).startTime), parseTime(Head(segs).endTime)>>
         \o getSegmentEdgeTimes(Tail(segs), excludeId)

----------------------------------------------------------------------------
(* Timeline: segment dragging, src/unnamed/part_001 *)

gridSnapInterval == 50      \* 0.5 s
edgeThreshold == 20         \* 0.2 s
minDuration == 50           \* 0.5 s
zoomLevel == 50             \* pixels per second, ZOOM.DEFAULT

snapConfig == [gridEnabled |-> gridSnap, gridInterval |-> gridSnapInterval,
               edgeEnabled |-> dragLineSnap, edgeThreshold |-> edgeThreshold]

getSnapTargets(segs, excludeSegmentId) == getSegmentEdgeTimes(segs, excludeSegmentId)

performEdgeSnap(segs, time, excludeSegmentId) ==
    snapToEdge(time, getSnapTargets(segs, excludeSegmentId), edgeThreshold, dragLineSnap)

\* performSnap that leaves the grid out
performSnapEdgeOnly(segs, time, excludeSegmentId) ==
    performEdgeSnap(segs, time, excludeSegmentId).time

performSnap(segs, time, excludeSegmentId) ==
    snapTime(time, getSnapTargets(segs, excludeSegmentId), snapConfig).time

HasSegment(segs, id) == \E i \in DOMAIN segs : segs[i].id = id

\* segments.find((s) => s.id === id), for an id that is there
FindSegment(segs, id) == segs[CHOOSE i \in DOMAIN segs :
                                segs[i].id = id /\ \A j \in 1..(i - 1) : segs[j].id # id]

\* content x coordinate of a time and the time a pixel distance stands for
TimeToPixel(time) == (time * zoomLevel) \div 100

DeltaTime(deltaX) == (deltaX * 100) \div zoomLevel

\* the three branches of handleMouseMove give the store after the tick and
\* the guides the tick collects in activeGuides

\* left-edge branch that writes the clamped start where the source drops the tick
dragLeftClamps(st, ds, deltaTime) ==
    LET rawStart == Max(0, ds.initialStartTime + deltaTime)
        newStart == performSnap(st.segments, rawStart, ds.segmentId)
        edgeResult == performEdgeSnap(st.segments, rawStart, ds.segmentId)
    IN  IF newStart < ds.initialEndTime - minDuration
        THEN [store |-> updateSegment(st, ds.segmentId,
                                      [startTime |-> formatTime(newStart)]),
              guides |-> IF edgeResult.snapped THEN <<edgeResult.time>> ELSE <<>>]
        ELSE [store |-> updateSegment(st, ds.segmentId,
                            [startTime |-> formatTime(ds.initialEndTime - minDuration)]),
              guides |-> <<>>]

dragLeft(st, ds, deltaTime) ==
    LET rawStart == Max(0, ds.initialStartTime + deltaTime)
        newStart == performSnap(st.segments, rawStart, ds.segmentId)
        edgeResult == performEdgeSnap(st.segments, rawStart, ds.segmentId)
    IN  IF newStart < ds.initialEndTime - minDuration
        THEN [store |-> updateSegment(st, ds.segmentId,
                                      [startTime |-> formatTime(newStart)]),
              guides |-> IF edgeResult.snapped THEN <<edgeResult.time>> ELSE <<>>]
        ELSE [store |-> st, guides |-> <<>>]

\* right-edge branch that shows a guide at every end it moved, also for a
\* grid snap
dragRightGuidesGrid(st, ds, deltaTime) ==
    LET rawEnd == Max(ds.initialStartTime + minDuration, ds.initialEndTime + deltaTime)
        newEnd == performSnap(st.segments, rawEnd, ds.segmentId)
    IN  [store |-> updateSegment(st, ds.segmentId, [endTime |-> formatTime(newEnd)]),
         guides |-> IF newEnd # rawEnd THEN <<newEnd>> ELSE <<>>]

\* right-edge branch that writes the end without a history entry
dragRightSkipsHistory(st, ds, deltaTime) ==
    LET rawEnd == Max(ds.initialStartTime + minDuration, ds.initialEndTime + deltaTime)
        newEnd == performSnap(st.segments, rawEnd, ds.segmentId)
        edgeResult == performEdgeSnap(st.segments, rawEnd, ds.segmentId)
        written == updateSegment(st, ds.segmentId, [endTime |-> formatTime(newEnd)])
    IN  [store |-> [written EXCEPT !.past = st.past],
         guides |-> IF edgeResult.snapped THEN <<edgeResult.time>> ELSE <<>>]

dragRight(st, ds, deltaTime) ==
    LET rawEnd == Max(ds.initialStartTime + minDuration, ds.initialEndTime + deltaTime)
        newEnd == performSnap(st.segments, rawEnd, ds.segmentId)
        edgeResult == performEdgeSnap(st.segments, rawEnd, ds.segmentId)
    IN  [store |-> updateSegment(st, ds.segmentId, [endTime |-> formatTime(newEnd)]),
         guides |-> IF edgeResult.snapped THEN <<edgeResult.time>> ELSE <<>>]

dragMove(st, ds, deltaTime) ==
    LET segmentDuration == ds.initialEndTime - ds.initialStartTime
        rawStart == Max(0, ds.initialStartTime + deltaTime)
        rawEnd == rawStart + segmentDuration
        startSnap == performEdgeSnap(st.segments, rawStart, ds.segmentId)
        endSnap == performEdgeSnap(st.segments, rawEnd, ds.segmentId)
        newStart == IF startSnap.snapped THEN startSnap.time
                    ELSE IF endSnap.snapped THEN endSnap.time - segmentDuration
                    ELSE snapToGrid(rawStart, gridSnapInterval, gridSnap)
        activeGuides == IF startSnap.snapped THEN <<startSnap.time>>
                        ELSE IF endSnap.snapped THEN <<endSnap.time>>
                        ELSE <<>>
    IN  [store |-> updateSegment(st, ds.segmentId,
                     [startTime |-> formatTime(Max(0, newStart)),
                      endTime |-> formatTime(Max(0, newStart) + segmentDuration)]),
         guides |-> activeGuides]

handleMouseMove(st, ds, deltaTime) ==
    IF ~HasSegment(st.segments, ds.segmentId)
    THEN [store |-> st, guides |-> snapGuides]      \* return before setSnapGuides
    ELSE IF ds.mode = "left" THEN dragLeft(st, ds, deltaTime)
    ELSE IF ds.mode = "right" THEN dragRight(st, ds, deltaTime)
    ELSE dragMove(st, ds, deltaTime)

\* "Split at center" as one mutation with one history entry
splitAtCenterAtomic(st, id, newId) ==
    LET seg == FindSegment(st.segments, id)
        mid == (parseTime(seg.startTime) + parseTime(seg.endTime)) \div 2
        split == addSegment(updateSegment(st, id, [endTime |-> formatTime(mid)]),
                            mid, seg.speakerId, newId)
    IN  [split EXCEPT !.past = Append(st.past, HistoryEntry(st))]

\* context menu, "Split at center": updateSegment, then addSegment.  A mid
\* between two hundredths is cut to the lower one: formatTime rounds both to
\* the same tenth.
splitAtCenter(st, id, newId) ==
    LET seg == FindSegment(st.segments, id)
        start == parseTime(seg.startTime)
        end == parseTime(seg.endTime)
        mid == (start + end) \div 2
    IN  addSegment(updateSegment(st, id, [endTime |-> formatTime(mid)]),
                   mid, seg.speakerId, newId)

----------------------------------------------------------------------------
(* Timeline: scrolling, src/unnamed/part_001.  Positions are whole pixels; *)
(* a scroll amount is in tenths of a pixel.  The browser keeps scrollLeft  *)
(* on whole pixels (one device pixel per CSS pixel), rounding to the       *)
(* nearest, and between 0 and the scrollable width.                        *)

autoScrollZone == 80

autoScrollSpeed == 8

\* width of the scroll container, rect.width and clientWidth
containerWidth == 240

\* the prop totalDuration: a recording of 3 s
totalDuration == 300

ContentWidth == Max(100, (totalDuration * zoomLevel) \div 100 + 500)

MaxScrollLeft == ContentWidth - containerWidth

ClampScroll(x) ==
    IF x < 0 THEN 0 ELSE IF x > MaxScrollLeft THEN MaxScrollLeft ELSE x

\* containerRef.current.scrollLeft += scrollAmount
ScrollBy(left, scrollAmount) == ClampScroll((left * 10 + scrollAmount + 5) \div 10)

\* the effect "auto-scroll timeline when playing": the scroll position after
\* it ran with the given isPlaying and currentTime
playbackScroll(playing, time, left) ==
    IF playing
    THEN ClampScroll(Max(0, (time * zoomLevel) \div 100 - containerWidth \div 2))
    ELSE left

\* a pending frame callback is [handle, scrollAmount]: doScroll with the
\* scrollAmount of its closure.  The handle of a request is a number that
\* names no other pending callback; the model takes the smallest.
NewHandle(pending) ==
    CHOOSE h \in 1..(Cardinality(pending) + 1) :
        /\ \A f \in pending : f.handle # h
        /\ \A g \in 1..(h - 1) : \E f \in pending : f.handle = g

requestAnimationFrame(pending, scrollAmount) ==
    pending \cup {[handle |-> NewHandle(pending), scrollAmount |-> scrollAmount]}

cancelAnimationFrame(pending, handle) == {f \in pending : f.handle # handle}

\* if (autoScrollRef.current) { cancelAnimationFrame(...); ... = null }
cancelAutoScroll(ref, pending) ==
    IF ref # 0
    THEN [ref |-> 0, frames |-> cancelAnimationFrame(pending, ref)]
    ELSE [ref |-> ref, frames |-> pending]

\* the part "auto-scroll when near edges" of handleMouseMove
autoScrollOnMove(enabled, ref, pending, relativeX) ==
    LET cancelled == cancelAutoScroll(ref, pending)
        request(scrollAmount) ==
            [ref |-> NewHandle(cancelled.frames),
             frames |-> requestAnimationFrame(cancelled.frames, scrollAmount)]
    IN  IF ~enabled THEN [ref |-> ref, frames |-> pending]
        ELSE IF relativeX < autoScrollZone
             THEN request((-autoScrollSpeed) * 10
                          + (autoScrollSpeed * 10 * relativeX) \div autoScrollZone)
        ELSE IF relativeX > containerWidth - autoScrollZone
             THEN request(autoScrollSpeed * 10
                          - (autoScrollSpeed * 10 * (containerWidth - relativeX))
                                \div autoScrollZone)
        ELSE cancelled

handleMouseUpKeepsGuides(ref, pending) ==
    LET cancelled == cancelAutoScroll(ref, pending)
    IN  [dragState |-> NoDrag, snapGuides |-> snapGuides,
         ref |-> cancelled.ref, frames |-> cancelled.frames]

\* handleMouseUp
handleMouseUp(ref, pending) ==
    LET cancelled == cancelAutoScroll(ref, pending)
    IN  [dragState |-> NoDrag, snapGuides |-> <<>>,
         ref |-> cancelled.ref, frames |-> cancelled.frames]

----------------------------------------------------------------------------
(* The Timeline and the properties panel driven by the user *)

\* a project loaded in bulk: every segment at least 0.5 s long
TimelineSegments ==
    << [id |-> "1", speakerId |-> "speaker_1", startTime |-> T(0, 20),
        endTime |-> T(0, 100), text |-> "Hello"],
       [id |-> "2", speakerId |-> "speaker_2", startTime |-> T(0, 140),
        endTime |-> T(0, 300), text |-> "World"] >>

\* pointer positions of a tick, in pixels from where the drag started
DeltaXs == {-20, -5, 15, 20}

\* texts typed into the start field and into the end field: "00:00.05";
\* "00:01.05" and the empty text
StartTexts == { T(0, 5) }

EndTexts == { T(0, 105), [ok |-> FALSE, mm |-> 0, cs |-> 0] }

DragModes == {"left", "right", "move"}

\* the player's currentTime when "add segment" is clicked
PlayheadInputs == {200}

\* the segments the user selects or splits, and those the user drags
SelectInputs == {"1"}

DragInputs == {"1", generateId(1)}

InitUI ==
    /\ segments \in {<<>>, TimelineSegments}
    /\ speakers = DEFAULT_SPEAKERS
    /\ past = <<>>
    /\ future = <<>>
    /\ selectedSegmentId = Null
    /\ nextId = 0
    /\ dragState = NoDrag
    /\ snapGuides = <<>>
    /\ gridSnap = TRUE
    /\ dragLineSnap = TRUE
    /\ autoScroll = TRUE
    /\ autoScrollRef = 0
    /\ frames = {}
    /\ framesRun = 0
    /\ scrollLeft = 0
    /\ isPlaying = FALSE
    /\ playerCurrentTime = 0
    /\ codec = NoCodec
    /\ gesture = NoGesture
    /\ snap = SnapNone
    /\ lastOp = [op |-> "init", a |-> "", b |-> "", m |-> 0, n |-> 0, afterUndo |-> FALSE]
    /\ rt = RtIdle

Idle == dragState = NoDrag

LoadProject ==
    /\ Idle
    /\ Room(1)
    /\ LET new == setProjectData(St, TimelineSegments, DEFAULT_SPEAKERS)
       IN  Set(new) /\ rt' = RtOp(new)
    /\ lastOp' = Op("setProjectData", "", "", 0, 0)
    /\ UNCHANGED <<nextId, uiVars, scrollVars, playerVars, snap, codec, gesture>>

SelectSegment ==
    \E i \in DOMAIN segments :
        /\ Idle
        /\ segments[i].id \in SelectInputs
        /\ Set(setSelectedSegmentId(St, segments[i].id))
        /\ lastOp' = Op("setSelectedSegmentId", "", "", 0, 0)
        /\ rt' = RtIdle
        /\ UNCHANGED <<nextId, uiVars, scrollVars, playerVars, snap, codec, gesture>>

AddSegmentAtPlayhead ==
    \E t \in PlayheadInputs :
        /\ Idle
        /\ Room(1)
        /\ nextId < MaxIds
        /\ nextId' = nextId + 1
        /\ LET new == addSegment(St, t, NoSpeaker, generateId(nextId + 1))
           IN  Set(new) /\ rt' = RtOp(new)
        /\ lastOp' = Op("addSegment", generateId(nextId + 1), NoSpeaker, t, 0)
        /\ UNCHANGED <<uiVars, scrollVars, playerVars, snap, codec, gesture>>

SplitAtCenter ==
    \E i \in DOMAIN segments :
        /\ Idle
        /\ segments[i].id \in SelectInputs
        /\ Room(2)
        /\ nextId < MaxIds
        /\ nextId' = nextId + 1
        /\ Set(splitAtCenter(St, segments[i].id, generateId(nextId + 1)))
        /\ rt' = RtIdle
        /\ lastOp' = Op("splitAtCenter", segments[i].id, generateId(nextId + 1), 0, 0)
        /\ UNCHANGED <<uiVars, scrollVars, playerVars, snap, codec, gesture>>

PanelEditStart ==
    \E text \in StartTexts :
        /\ Idle
        /\ HasSegment(segments, selectedSegmentId)
        /\ Room(1)
        /\ LET new == updateSegment(St, selectedSegmentId, [startTime |-> text])
           IN  Set(new) /\ rt' = RtOp(new)
        /\ lastOp' = Op("updateSegment", selectedSegmentId, "panelStart", 0, 0)
        /\ UNCHANGED <<nextId, uiVars, scrollVars, playerVars, snap, codec, gesture>>

PanelEditEnd ==
    \E text \in EndTexts :
        /\ Idle
        /\ HasSegment(segments, selectedSegmentId)
        /\ Room(1)
        /\ LET new == updateSegment(St, selectedSegmentId, [endTime |-> text])
           IN  Set(new) /\ rt' = RtOp(new)
        /\ lastOp' = Op("updateSegment", selectedSegmentId, "panelEnd", 0, 0)
        /\ UNCHANGED <<nextId, uiVars, scrollVars, playerVars, snap, codec, gesture>>

ToggleGridSnap ==
    /\ Idle
    /\ gridSnap' = ~gridSnap
    /\ lastOp' = Op("setGridSnap", "", "", 0, 0)
    /\ rt' = RtIdle
    /\ UNCHANGED <<storeVars, nextId, dragState, snapGuides, dragLineSnap, scrollVars, playerVars, snap, codec, gesture>>

ToggleDragLineSnap ==
    /\ Idle
    /\ dragLineSnap' = ~dragLineSnap
    /\ lastOp' = Op("setDragLineSnap", "", "", 0, 0)
    /\ rt' = RtIdle
    /\ UNCHANGED <<storeVars, nextId, dragState, snapGuides, gridSnap, scrollVars, playerVars, snap, codec, gesture>>

\* pointer-down on a handle or on the body of a segment
SegmentDragStart ==
    \E i \in DOMAIN segments, mode \in DragModes :
        LET segment == segments[i]
            grabbed == IF mode = "right" THEN parseTime(segment.endTime)
                       ELSE parseTime(segment.startTime)
        IN  /\ Idle
            /\ segment.id \in DragInputs
            /\ dragState' = [segmentId |-> segment.id,
                             mode |-> mode,
                             initialX |-> TimeToPixel(grabbed),
                             initialStartTime |-> parseTime(segment.startTime),
                             initialEndTime |-> parseTime(segment.endTime)]
            /\ gesture' = [segments |-> segments, past |-> past, ticks |-> 0,
                            beforeLast |-> segments]
            /\ lastOp' = Op("mousedown", "", "", 0, 0)
            /\ rt' = RtIdle
            /\ UNCHANGED <<storeVars, nextId, snapGuides, gridSnap, dragLineSnap,
                           scrollVars, playerVars, snap, codec>>

\* one pointer-move tick of a drag with the pointer dx pixels of content from
\* where the drag started; lastOp.m, lastOp.n are the tick's deltaX and
\* deltaTime
MouseMoveBy(dx) ==
    LET mouseX == dragState.initialX + dx
        relativeX == mouseX - scrollLeft
        deltaX == mouseX - dragState.initialX
        deltaTime == DeltaTime(deltaX)
        scroll == autoScrollOnMove(autoScroll, autoScrollRef, frames, relativeX)
        tick == handleMouseMove(St, dragState, deltaTime)
    IN  /\ ~Idle
        /\ tick.store # St => Room(1)
        /\ autoScrollRef' = scroll.ref
        /\ frames' = scroll.frames
        /\ Set(tick.store)
        /\ snapGuides' = tick.guides
        /\ rt' = IF tick.store # St THEN RtOp(tick.store) ELSE RtIdle
        /\ gesture' = IF tick.store # St
                      THEN [gesture EXCEPT !.ticks = @ + 1, !.beforeLast = segments]
                      ELSE gesture
        /\ lastOp' = Op("mousemove", dragState.segmentId, dragState.mode,
                        deltaX, deltaTime)
        /\ UNCHANGED <<nextId, dragState, gridSnap, dragLineSnap, autoScroll,
                       framesRun, scrollLeft, playerVars, snap, codec>>

MouseMove == \E dx \in DeltaXs : MouseMoveBy(dx)

MouseUp ==
    LET up == handleMouseUp(autoScrollRef, frames)
    IN  /\ ~Idle
        /\ dragState' = up.dragState
        /\ snapGuides' = up.snapGuides
        /\ autoScrollRef' = up.ref
        /\ frames' = up.frames
        /\ gesture' = [NoGesture EXCEPT !.ticks = gesture.ticks]
        /\ lastOp' = Op("mouseup", "", "", 0, 0)
        /\ rt' = RtIdle
        /\ UNCHANGED <<storeVars, nextId, gridSnap, dragLineSnap, autoScroll,
                       framesRun, scrollLeft, playerVars, snap, codec>>

\* a pointer-move while no drag is active: the effect has removed its
\* listeners (it returns at once when dragState is null), no handler runs
PointerMoveIdle ==
    /\ Idle
    /\ lastOp' = Op("pointermove", "", "", 0, 0)
    /\ rt' = RtIdle
    /\ UNCHANGED <<storeVars, nextId, uiVars, scrollVars, playerVars, snap, codec, gesture>>

UndoBetweenGestures == Idle /\ Undo

RedoBetweenGestures == Idle /\ Redo

NextUI ==
    \/ LoadProject
    \/ SelectSegment
    \/ AddSegmentAtPlayhead
    \/ SplitAtCenter
    \/ PanelEditStart
    \/ PanelEditEnd
    \/ ToggleGridSnap
    \/ ToggleDragLineSnap
    \/ SegmentDragStart
    \/ MouseMove
    \/ MouseUp
    \/ UndoBetweenGestures
    \/ RedoBetweenGestures

\* editing with the Timeline and the properties panel; undo and redo are
\* issued between drag gestures
SpecUI == InitUI /\ [][NextUI]_vars

NextDrag ==
    \/ ToggleGridSnap
    \/ ToggleDragLineSnap
    \/ SegmentDragStart
    \/ MouseMove
    \/ MouseUp
    \/ PointerMoveIdle
    \/ UndoBetweenGestures
    \/ RedoBetweenGestures

\* drag gestures only
SpecDrag == InitUI /\ [][NextDrag]_vars

----------------------------------------------------------------------------
(* Dragging onto the edges of another segment *)

\* pointer positions of a tick that take the left edge of the first segment
\* of TimelineSegments to 0.1 s before the start of the second and onto it
GuideDeltaXs == {55, 60}

MouseMoveToEdge == \E dx \in GuideDeltaXs : MouseMoveBy(dx)

NextGuides ==
    \/ ToggleGridSnap
    \/ ToggleDragLineSnap
    \/ SegmentDragStart
    \/ MouseMove
    \/ MouseMoveToEdge
    \/ MouseUp

SpecGuides == InitUI /\ [][NextGuides]_vars

----------------------------------------------------------------------------
(* Segments of several lengths split at their center *)

SplitStarts == {0, 20, 50, 70}

SplitEnds == {120, 130, 150, 200, 230, 300, 500}

\* projects of two segments, the first from a time of SplitStarts to a time
\* of SplitEnds
SplitFixtures ==
    { << [id |-> "1", speakerId |-> "speaker_2", startTime |-> formatTime(start),
          endTime |-> formatTime(end), text |-> "Hello"],
         [id |-> "2", speakerId |-> "speaker_1", startTime |-> T(0, 140),
          endTime |-> T(0, 300), text |-> "World"] >> :
      start \in SplitStarts, end \in SplitEnds }

InitSplit ==
    /\ segments \in SplitFixtures
    /\ speakers = DEFAULT_SPEAKERS
    /\ past = <<>>
    /\ future = <<>>
    /\ selectedSegmentId = Null
    /\ nextId = 0
    /\ dragState = NoDrag
    /\ snapGuides = <<>>
    /\ gridSnap = TRUE
    /\ dragLineSnap = TRUE
    /\ autoScroll = TRUE
    /\ autoScrollRef = 0
    /\ frames = {}
    /\ framesRun = 0
    /\ scrollLeft = 0
    /\ isPlaying = FALSE
    /\ playerCurrentTime = 0
    /\ codec = NoCodec
    /\ gesture = NoGesture
    /\ snap = SnapNone
    /\ lastOp = [op |-> "init", a |-> "", b |-> "", m |-> 0, n |-> 0, afterUndo |-> FALSE]
    /\ rt = RtIdle

NextSplit ==
    \/ SelectSegment
    \/ SplitAtCenter
    \/ UndoBetweenGestures
    \/ RedoBetweenGestures

SpecSplit == InitSplit /\ [][NextSplit]_vars

----------------------------------------------------------------------------
(* Dragging while the timeline scrolls and the player plays *)

MaxFrames == 2      \* frame callbacks the browser runs

\* pointer positions of a tick: in the left zone, between the zones and in
\* the right zone when nothing has scrolled
FarDeltaXs == {-20, 100, 160}

\* times reported by the player while it plays
PlayTimes == {280}

\* the auto-scroll button of the toolbar
ToggleAutoScroll ==
    /\ autoScroll' = ~autoScroll
    /\ lastOp' = Op("setAutoScroll", "", "", 0, 0)
    /\ rt' = RtIdle
    /\ UNCHANGED <<storeVars, nextId, uiVars, autoScrollRef, frames, framesRun,
                   scrollLeft, playerVars, snap, codec, gesture>>

MouseMoveFar == \E dx \in FarDeltaXs : MouseMoveBy(dx)

\* the browser runs a pending frame callback: doScroll.  Its closure holds
\* the dragState of the render that made it, which is not null.
FrameFires ==
    \E f \in frames :
        LET rest == frames \ {f}
        IN  /\ framesRun < MaxFrames
            /\ framesRun' = framesRun + 1
            /\ scrollLeft' = ScrollBy(scrollLeft, f.scrollAmount)
            /\ autoScrollRef' = NewHandle(rest)
            /\ frames' = requestAnimationFrame(rest, f.scrollAmount)
            /\ lastOp' = Op("doScroll", "", "", f.scrollAmount, 0)
            /\ rt' = RtIdle
            /\ UNCHANGED <<storeVars, nextId, uiVars, autoScroll, playerVars, snap, codec, gesture>>

\* togglePlay of the application, then the effect of the Timeline
TogglePlay ==
    /\ isPlaying' = ~isPlaying
    /\ scrollLeft' = playbackScroll(~isPlaying, playerCurrentTime, scrollLeft)
    /\ lastOp' = Op("togglePlay", "", "", 0, 0)
    /\ rt' = RtIdle
    /\ UNCHANGED <<storeVars, nextId, uiVars, autoScroll, autoScrollRef, frames,
                   framesRun, playerCurrentTime, snap, codec, gesture>>

\* the player reports a later time while playing: setCurrentTime, then the
\* effect of the Timeline
TimeUpdate ==
    \E time \in PlayTimes :
        /\ isPlaying
        /\ time > playerCurrentTime
        /\ playerCurrentTime' = time
        /\ scrollLeft' = playbackScroll(isPlaying, time, scrollLeft)
        /\ lastOp' = Op("setCurrentTime", "", "", time, 0)
        /\ rt' = RtIdle
        /\ UNCHANGED <<storeVars, nextId, uiVars, autoScroll, autoScrollRef,
                       frames, framesRun, isPlaying, snap, codec, gesture>>

NextScroll ==
    \/ ToggleAutoScroll
    \/ SegmentDragStart
    \/ MouseMoveFar
    \/ MouseUp
    \/ FrameFires
    \/ TogglePlay
    \/ TimeUpdate

SpecScroll == InitUI /\ [][NextScroll]_vars

----------------------------------------------------------------------------
(* The snapping functions called on their own *)

MaxSnapSteps == 30      \* times run from -20 to 5 * MaxSnapSteps
MaxTargets == 2         \* longest target list

SnapTimes == {5 * k : k \in -4..MaxSnapSteps}

SnapTargets == {40, 60, 100}

RECURSIVE TargetLists(_)
TargetLists(n) ==
    IF n = 0 THEN {<<>>}
    ELSE TargetLists(n - 1)
         \cup {Append(l, t) : l \in {m \in TargetLists(n - 1) : Len(m) = n - 1},
                              t \in SnapTargets}

SnapConfigs ==
    [gridEnabled : BOOLEAN, gridInterval : {0, 30, 50},
     edgeEnabled : BOOLEAN, edgeThreshold : {0, 20}]

InitSnap ==
    /\ segments = <<>>
    /\ speakers = DEFAULT_SPEAKERS
    /\ past = <<>>
    /\ future = <<>>
    /\ selectedSegmentId = Null
    /\ nextId = 0
    /\ dragState = NoDrag
    /\ snapGuides = <<>>
    /\ gridSnap = TRUE
    /\ dragLineSnap = TRUE
    /\ autoScroll = TRUE
    /\ autoScrollRef = 0
    /\ frames = {}
    /\ framesRun = 0
    /\ scrollLeft = 0
    /\ isPlaying = FALSE
    /\ playerCurrentTime = 0
    /\ codec = NoCodec
    /\ gesture = NoGesture
    /\ \E time \in SnapTimes, targets \in TargetLists(MaxTargets), config \in SnapConfigs :
          snap = [SnapNone EXCEPT !.time = time, !.targets = targets, !.config = config]
    /\ lastOp = [op |-> "init", a |-> "", b |-> "", m |-> 0, n |-> 0, afterUndo |-> FALSE]
    /\ rt = RtIdle

\* snapToGrid(time, config.gridInterval, config.gridEnabled)
CallSnapToGrid ==
    /\ snap.fn = "none"
    /\ LET r == snapToGrid(snap.time, snap.config.gridInterval, snap.config.gridEnabled)
       IN  snap' = [snap EXCEPT !.fn = "snapToGrid", !.out.time = r, !.again = r]
    /\ UNCHANGED <<storeVars, nextId, uiVars, scrollVars, playerVars, codec, gesture, lastOp, rt>>

\* snapToGrid applied to its own result
CallSnapToGridAgain ==
    /\ snap.fn = "snapToGrid"
    /\ snap' = [snap EXCEPT !.fn = "snapToGrid twice",
                            !.again = snapToGrid(snap.out.time, snap.config.gridInterval,
                                                 snap.config.gridEnabled)]
    /\ UNCHANGED <<storeVars, nextId, uiVars, scrollVars, playerVars, codec, gesture, lastOp, rt>>

\* snapToEdge(time, targets, config.edgeThreshold, config.edgeEnabled)
CallSnapToEdge ==
    /\ snap.fn = "none"
    /\ snap' = [snap EXCEPT !.fn = "snapToEdge",
                            !.out = snapToEdge(snap.time, snap.targets,
                                               snap.config.edgeThreshold,
                                               snap.config.edgeEnabled)]
    /\ UNCHANGED <<storeVars, nextId, uiVars, scrollVars, playerVars, codec, gesture, lastOp, rt>>

\* snapTime(time, targets, config)
CallSnapTime ==
    /\ snap.fn = "none"
    /\ snap' = [snap EXCEPT !.fn = "snapTime",
                            !.out = snapTime(snap.time, snap.targets, snap.config)]
    /\ UNCHANGED <<storeVars, nextId, uiVars, scrollVars, playerVars, codec, gesture, lastOp, rt>>

NextSnap ==
    \/ CallSnapToGrid
    \/ CallSnapToGridAgain
    \/ CallSnapToEdge
    \/ CallSnapTime

SpecSnap == InitSnap /\ [][NextSnap]_vars

----------------------------------------------------------------------------
(* The time codec called on its own *)

MaxSeconds == 125       \* whole seconds run from 0 to MaxSeconds

\* arguments of formatTime: whole seconds, among them some of an hour and
\* more, and times between two seconds
TimeInputs ==
    {100 * n : n \in 0..MaxSeconds}
        \cup {100 * n : n \in {3599, 3600, 3661, 7325, 360000}}
        \cup {30, 550, 555, 5996, 9050}

InitTime ==
    /\ segments = <<>>
    /\ speakers = DEFAULT_SPEAKERS
    /\ past = <<>>
    /\ future = <<>>
    /\ selectedSegmentId = Null
    /\ nextId = 0
    /\ dragState = NoDrag
    /\ snapGuides = <<>>
    /\ gridSnap = TRUE
    /\ dragLineSnap = TRUE
    /\ autoScroll = TRUE
    /\ autoScrollRef = 0
    /\ frames = {}
    /\ framesRun = 0
    /\ scrollLeft = 0
    /\ isPlaying = FALSE
    /\ playerCurrentTime = 0
    /\ gesture = NoGesture
    /\ snap = SnapNone
    /\ \E seconds \in TimeInputs : codec = [NoCodec EXCEPT !.seconds = seconds]
    /\ lastOp = [op |-> "init", a |-> "", b |-> "", m |-> 0, n |-> 0, afterUndo |-> FALSE]
    /\ rt = RtIdle

\* formatTime(seconds)
CallFormatTime ==
    /\ codec.fn = "none"
    /\ codec' = [codec EXCEPT !.fn = "formatTime", !.text = formatTime(codec.seconds)]
    /\ UNCHANGED <<storeVars, nextId, uiVars, scrollVars, playerVars, snap, gesture,
                   lastOp, rt>>

\* parseTime of the text formatTime returned
CallParseTime ==
    /\ codec.fn = "formatTime"
    /\ codec' = [codec EXCEPT !.fn = "parseTime", !.parsed = parseTime(codec.text)]
    /\ UNCHANGED <<storeVars, nextId, uiVars, scrollVars, playerVars, snap, gesture,
                   lastOp, rt>>

NextTime ==
    \/ CallFormatTime
    \/ CallParseTime

SpecTime == InitTime /\ [][NextTime]_vars

----------------------------------------------------------------------------
(* Claims about the store *)

\* C1: for every history-wrapped operation X, an undo() immediately after X
\* restores the (segments, speakers) pair that held before X, and a redo()
\* immediately after that undo restores the pair that held after X.
C1_UndoRedoRoundTrip ==
    /\ rt.phase = "undone" => HistoryEntry(St) = rt.before
    /\ rt.phase = "redone" => HistoryEntry(St) = rt.after

C1_Witness ==
    /\ rt.phase = "redone"
    /\ rt.before.segments # rt.after.segments
    /\ rt.before.speakers # rt.after.speakers

\* C2: after any mutating operation, also one performed after undo(), the
\* future stack is empty, canRedo() is false and redo() changes nothing.
C2_MutationClearsFuture ==
    lastOp.op \in Mutating =>
        /\ future = <<>>
        /\ ~canRedo(St)
        /\ redo(St) = St

C2_Witness ==
    /\ lastOp.op \in Mutating
    /\ lastOp.afterUndo
    /\ Len(past) >= 1

\* C3: each call of a mutating operation, also one whose id matches nothing,
\* appends exactly one entry to past, the (segments, speakers) pair held
\* immediately before the call, and leaves the earlier entries unchanged.
C3_PushesOneEntry ==
    [][lastOp'.op \in Mutating =>
        past' = past \o << [segments |-> segments, speakers |-> speakers] >>]_vars

C3_Witness ==
    /\ lastOp.op = "deleteSegment"
    /\ lastOp.a = "nope"
    /\ Len(past) = 2
    /\ past[2].segments = segments

\* C4: undo() on an empty past and redo() on an empty future change none of
\* segments, speakers, past, future, selectedSegmentId.
C4_EmptyStackNoOp ==
    [][ (\/ lastOp'.op = "undo" /\ past = <<>>
         \/ lastOp'.op = "redo" /\ future = <<>>)
        => UNCHANGED storeVars ]_vars

C4_Witness ==
    /\ lastOp.op = "redo"
    /\ lastOp.m = 0
    /\ selectedSegmentId # Null
    /\ past # <<>>

\* the segments other than those of speaker id are as before, position by
\* position; those of speaker id now belong to speaker toId
Reassigned(before, after, id, toId) ==
    /\ Len(after) = Len(before)
    /\ \A i \in DOMAIN before :
          after[i] = IF before[i].speakerId = id
                     THEN [before[i] EXCEPT !.speakerId = toId]
                     ELSE before[i]

MergePost(fromId, toId) ==
    /\ \A i \in DOMAIN segments' : segments'[i].speakerId # fromId
    /\ Reassigned(segments, segments', fromId, toId)
    /\ \A j \in DOMAIN speakers' : speakers'[j].id # fromId

\* C9 as stated: for any fromId and toId, after mergeSpeakers(fromId, toId)
\* no segment has speakerId = fromId, the segments that had it have toId,
\* the others are unchanged, and no speaker has id fromId.
C9_Original ==
    [][lastOp'.op = "mergeSpeakers" => MergePost(lastOp'.a, lastOp'.b)]_vars

\* C9 amended: the same for fromId # toId.
C9_MergeDistinct ==
    [][(lastOp'.op = "mergeSpeakers" /\ lastOp'.a # lastOp'.b)
        => MergePost(lastOp'.a, lastOp'.b)]_vars

C9_Witness ==
    /\ lastOp.op = "mergeSpeakers"
    /\ lastOp.a = "speaker_2"
    /\ lastOp.b = "speaker_1"
    /\ \E i \in DOMAIN segments :
          segments[i].id = "2" /\ segments[i].speakerId = "speaker_1"
    /\ Len(speakers) = 3

\* a is b with some elements left out
RECURSIVE IsSubSeq(_, _)
IsSubSeq(a, b) ==
    IF a = <<>> THEN TRUE
    ELSE IF b = <<>> THEN FALSE
    ELSE IF Head(a) = Head(b) THEN IsSubSeq(Tail(a), Tail(b))
    ELSE IsSubSeq(a, Tail(b))

\* C10: after deleteSpeaker(id) no speaker has that id and no segment has
\* that speakerId; all other speakers and segments remain, unchanged and in
\* their previous relative order.
C10_DeleteSpeakerCascades ==
    [][lastOp'.op = "deleteSpeaker" =>
        LET id == lastOp'.a IN
        /\ \A j \in DOMAIN speakers' : speakers'[j].id # id
        /\ \A i \in DOMAIN segments' : segments'[i].speakerId # id
        /\ IsSubSeq(speakers', speakers)
        /\ IsSubSeq(segments', segments)
        /\ Len(speakers') = Cardinality({j \in DOMAIN speakers : speakers[j].id # id})
        /\ Len(segments') = Cardinality({i \in DOMAIN segments : segments[i].speakerId # id})
    ]_vars

C10_Witness ==
    /\ lastOp.op = "deleteSpeaker"
    /\ lastOp.a = "speaker_2"
    /\ Len(speakers) = 3
    /\ Len(segments) >= 1
    /\ Len(past) >= 1
    /\ Len(Last(past).segments) > Len(segments)

----------------------------------------------------------------------------
(* Claims about dragging *)

Duration(seg) == parseTime(seg.endTime) - parseTime(seg.startTime)

\* C5: in every state reached from a bulk load of segments of at least
\* 0.5 s by addSegment, drag ticks, split at center, start and end edits in
\* the properties panel, undo and redo, every segment has
\* parse(endTime) - parse(startTime) >= 0.5 s and parse(startTime) >= 0.
C5_MinDuration ==
    \A i \in DOMAIN segments :
        /\ Duration(segments[i]) >= minDuration
        /\ parseTime(segments[i].startTime) >= 0

\* the step is a pointer-move tick in the given mode on a segment that exists
TickStep(mode) ==
    /\ lastOp'.op = "mousemove"
    /\ dragState.mode = mode
    /\ HasSegment(segments, dragState.segmentId)

Dragged == FindSegment(segments, dragState.segmentId)

\* C6: on every right-edge tick, for every snap configuration and every set
\* of other edges, the endTime written is at least initialStart + 0.5 s and
\* the segment's startTime is not changed.
C6_RightEdgeLowerBound ==
    [][TickStep("right") =>
        /\ parseTime(Dragged'.endTime) >= dragState.initialStartTime + minDuration
        /\ Dragged'.startTime = Dragged.startTime]_vars

\* the snapped candidate start of a left-edge tick with this deltaTime
LeftCandidate(deltaTime) ==
    performSnap(segments, Max(0, dragState.initialStartTime + deltaTime),
                dragState.segmentId)

\* C7: a left-edge tick whose snapped candidate start is not strictly less
\* than initialEnd - 0.5 s is dropped: segments, speakers, past and future
\* are unchanged and the drag stays active.
C7_LeftEdgeDropped ==
    [][(/\ TickStep("left")
        /\ ~(LeftCandidate(lastOp'.n) < dragState.initialEndTime - minDuration))
        => /\ UNCHANGED <<segments, speakers, past, future>>
           /\ dragState' = dragState
           /\ dragState' # NoDrag]_vars

C7_Witness ==
    /\ lastOp.op = "mousemove"
    /\ dragState.mode = "left"
    /\ HasSegment(segments, dragState.segmentId)
    /\ LeftCandidate(lastOp.n) >= dragState.initialEndTime - minDuration
    /\ parseTime(Dragged.startTime) = dragState.initialStartTime

\* C8: on every whole-move tick the pair written has
\* parse(endTime) - parse(startTime) = initialEnd - initialStart and
\* parse(startTime) >= 0.
C8_MovePreservesDuration ==
    [][TickStep("move") =>
        /\ Duration(Dragged') = dragState.initialEndTime - dragState.initialStartTime
        /\ parseTime(Dragged'.startTime) >= 0]_vars


----------------------------------------------------------------------------
(* Claims about the store, continued *)

\* non-decreasing start-time order, the start time being parseTime(startTime)
SortedByStart(segs) ==
    \A i \in 1..(Len(segs) - 1) :
        parseTime(segs[i].startTime) <= parseTime(segs[i + 1].startTime)

\* s without its k-th element
RemoveAt(s, k) == SubSeq(s, 1, k - 1) \o SubSeq(s, k + 1, Len(s))

\* C11: if the segments are in non-decreasing start-time order before
\* addSegment(t, speaker), then afterwards they are in non-decreasing
\* start-time order and they are the old segments, in their old relative
\* order, plus one new segment whose startTime is the text of t.
C11_AddSegmentKeepsOrder ==
    [][(lastOp'.op = "addSegment" /\ SortedByStart(segments)) =>
        /\ SortedByStart(segments')
        /\ \E k \in DOMAIN segments' :
              /\ segments'[k].id = lastOp'.a
              /\ segments'[k].startTime = formatTime(lastOp'.m)
              /\ RemoveAt(segments', k) = segments]_vars


\* the id matches nothing the call looks at
Unmatched(op, id) ==
    CASE op \in {"updateSegment", "deleteSegment"} ->
            \A i \in DOMAIN segments : segments[i].id # id
      [] op = "updateSpeaker" ->
            \A j \in DOMAIN speakers : speakers[j].id # id
      [] op \in {"deleteSpeaker", "mergeSpeakers"} ->
            /\ \A j \in DOMAIN speakers : speakers[j].id # id
            /\ \A i \in DOMAIN segments : segments[i].speakerId # id
      [] OTHER -> FALSE

----------------------------------------------------------------------------
(* Claims about snapping *)

\* the indices of the targets at a distance from time strictly below threshold
Within(time, targets, threshold) ==
    {i \in DOMAIN targets : Abs(time - targets[i]) < threshold}

\* the first target in list order whose distance to time is minimal
Nearest(time, targets) ==
    targets[CHOOSE i \in DOMAIN targets :
                /\ \A j \in DOMAIN targets :
                      Abs(time - targets[i]) <= Abs(time - targets[j])
                /\ \A j \in 1..(i - 1) :
                      Abs(time - targets[j]) > Abs(time - targets[i])]

\* C13: whenever edge snapping is enabled and at least one target lies at a
\* distance strictly below edgeThreshold from the input time, snapTime
\* returns the nearest such target, whatever the grid settings.
C13_EdgeBeforeGrid ==
    (/\ snap.fn = "snapTime"
     /\ snap.config.edgeEnabled
     /\ Within(snap.time, snap.targets, snap.config.edgeThreshold) # {})
    => snap.out.time = Nearest(snap.time, snap.targets)

\* C14: with snapping enabled and a non-empty target list, snapToEdge
\* returns the first target in list order whose distance to time is minimal,
\* provided that distance is strictly below threshold, and time unchanged
\* when no target is strictly within threshold; the returned time is always
\* the input or a member of targets.
C14_SnapToEdgeNearest ==
    (/\ snap.fn = "snapToEdge"
     /\ snap.config.edgeEnabled
     /\ snap.targets # <<>>)
    => /\ Within(snap.time, snap.targets, snap.config.edgeThreshold) # {}
            => snap.out.time = Nearest(snap.time, snap.targets)
       /\ Within(snap.time, snap.targets, snap.config.edgeThreshold) = {}
            => snap.out.time = snap.time
       /\ snap.out.time = snap.time \/ snap.out.time \in Range(snap.targets)

\* two targets at the same distance below the threshold: the first is taken
C14_Witness ==
    /\ snap.fn = "snapToEdge"
    /\ snap.config.edgeEnabled
    /\ snap.config.edgeThreshold = 20
    /\ snap.time = 50
    /\ snap.targets = <<60, 40>>
    /\ snap.out.time = 60

\* C15: for every time and every interval > 0, snapToGrid applied twice
\* gives what it gives applied once, and a time that is a multiple of
\* interval is returned unchanged.
C15_SnapToGridIdempotent ==
    (/\ snap.fn \in {"snapToGrid", "snapToGrid twice"}
     /\ snap.config.gridEnabled
     /\ snap.config.gridInterval > 0)
    => /\ snap.again = snap.out.time
       /\ snap.time % snap.config.gridInterval = 0 => snap.out.time = snap.time

C15_Witness ==
    /\ snap.fn = "snapToGrid twice"
    /\ snap.config.gridEnabled
    /\ snap.config.gridInterval = 30
    /\ snap.time = 45
    /\ snap.out.time = 60
    /\ snap.again = 60

\* C16: snapToEdge reports snapped exactly when the time it returns differs
\* from the input; snapTime reports snapped exactly when its edge snap did,
\* so never for a time that grid snapping alone has changed.
C16_SnappedFlag ==
    /\ snap.fn = "snapToEdge" => (snap.out.snapped <=> snap.out.time # snap.time)
    /\ snap.fn = "snapTime" =>
          LET edgeResult == snapToEdge(snap.time, snap.targets,
                                       snap.config.edgeThreshold, snap.config.edgeEnabled)
          IN  /\ snap.out.snapped <=> edgeResult.snapped
              /\ snap.out.snapped => snap.out.time = edgeResult.time

\* a time moved by the grid alone
C16_Witness ==
    /\ snap.fn = "snapTime"
    /\ snap.config.edgeEnabled
    /\ snap.targets # <<>>
    /\ snap.out.time # snap.time
    /\ ~snap.out.snapped

\* C19: pointer-up clears dragState and empties the snap guides and leaves
\* segments, speakers, past and future as the last tick left them; while no
\* drag is active a pointer-move changes none of them.
C19_PointerUpToIdle ==
    [][/\ lastOp'.op = "mouseup" =>
              /\ dragState' = NoDrag
              /\ snapGuides' = <<>>
              /\ UNCHANGED <<segments, speakers, past, future>>
       /\ dragState = NoDrag /\ lastOp'.op \in {"mousemove", "pointermove"} =>
              UNCHANGED <<segments, speakers, past, future, dragState, snapGuides>>
      ]_vars

\* a pointer-move after the pointer-up of a drag whose ticks changed a segment
C19_Witness ==
    /\ lastOp.op = "pointermove"
    /\ dragState = NoDrag
    /\ snapGuides = <<>>
    /\ Len(past) > 0
    /\ segments # TimelineSegments

RECURSIVE UndoN(_, _)
\* the store after k calls of undo()
UndoN(st, k) == IF k = 0 THEN st ELSE UndoN(undo(st), k - 1)

\* the store st of a drag g whose ticks called updateSegment g.ticks times:
\* past is that of pointer-down with one entry more per call, one undo() gives
\* the segments from before the last call, g.ticks undo() give the segments
\* and the past of pointer-down, and fewer do not give that past
GestureHistory(st, g) ==
    /\ Len(st.past) = Len(g.past) + g.ticks
    /\ SubSeq(st.past, 1, Len(g.past)) = g.past
    /\ g.ticks > 0 => undo(st).segments = g.beforeLast
    /\ UndoN(st, g.ticks).segments = g.segments
    /\ UndoN(st, g.ticks).past = g.past
    /\ \A k \in 0..(g.ticks - 1) : UndoN(st, k).past # g.past

RawCandidate(ds, deltaTime) ==
    IF ds.mode = "left" THEN Max(0, ds.initialStartTime + deltaTime)
    ELSE Max(ds.initialStartTime + minDuration, ds.initialEndTime + deltaTime)

\* the bound an edge tick wrote
WrittenBound(segs, ds) ==
    IF ds.mode = "left" THEN parseTime(FindSegment(segs, ds.segmentId).startTime)
    ELSE parseTime(FindSegment(segs, ds.segmentId).endTime)

\* C23: with edge snapping off and grid snapping on, a left-edge or
\* right-edge tick that updates the store writes a multiple of the grid
\* interval, the one nearest to the raw candidate; a raw end of 5.05 s is
\* stored as "00:05".
C23_EdgeTickOnGrid ==
    /\ formatTime(snapTime(505, <<>>, [gridEnabled |-> TRUE, gridInterval |-> 50,
                                       edgeEnabled |-> FALSE, edgeThreshold |-> 20]).time)
           = T(0, 500)
    /\ [][/\ lastOp'.op = "mousemove"
           /\ dragState.mode \in {"left", "right"}
           /\ gridSnap /\ ~dragLineSnap
           /\ past' # past
           => /\ WrittenBound(segments', dragState) % gridSnapInterval = 0
              /\ 2 * Abs(WrittenBound(segments', dragState)
                         - RawCandidate(dragState, lastOp'.n)) <= gridSnapInterval
         ]_vars

\* the right edge of segment 1 taken from 1.0 s to the raw end 1.3 s is
\* written as 1.5 s
C23_Witness ==
    /\ lastOp.op = "mousemove"
    /\ gridSnap /\ ~dragLineSnap
    /\ dragState.mode = "right"
    /\ dragState.initialEndTime = 100
    /\ lastOp.n = 30
    /\ WrittenBound(segments, dragState) = 150

\* C25: updateSegment(id, fields) changes the given fields of the segment
\* with that id and nothing else: the other fields, the other segments, the
\* length and the order of the segments (no sort), the speakers and
\* selectedSegmentId stay; no minimum duration is enforced.
C25_UpdateSegmentFrame ==
    [][lastOp'.op = "updateSegment" =>
          LET fields == UpdateFieldInputs[lastOp'.m]
          IN  /\ Len(segments') = Len(segments)
              /\ \A i \in DOMAIN segments :
                    IF segments[i].id = lastOp'.a
                    THEN \A f \in DOMAIN segments[i] :
                            segments'[i][f] = IF f \in DOMAIN fields THEN fields[f]
                                              ELSE segments[i][f]
                    ELSE segments'[i] = segments[i]
              /\ speakers' = speakers
              /\ selectedSegmentId' = selectedSegmentId
      ]_vars

\* segment 1 was given the start 00:07: it stays first, before a segment
\* that starts at 00:05, and it ends before it starts
C25_Witness ==
    /\ lastOp.op = "updateSegment"
    /\ lastOp.a = "1"
    /\ Len(segments) = 2
    /\ segments[1].id = "1"
    /\ segments[1].startTime = T(0, 700)
    /\ ~SortedByStart(segments)
    /\ parseTime(segments[1].endTime) - parseTime(segments[1].startTime) < minDuration
    /\ selectedSegmentId = "2"

\* the candidates of a whole-move tick and their edge snaps
MoveRawStart == Max(0, dragState.initialStartTime + lastOp'.n)

MoveRawEnd == MoveRawStart + (dragState.initialEndTime - dragState.initialStartTime)

MoveStartSnap == performEdgeSnap(segments, MoveRawStart, dragState.segmentId)

MoveEndSnap == performEdgeSnap(segments, MoveRawEnd, dragState.segmentId)

\* C26: in a whole-move tick, if the candidate start edge-snaps the stored
\* start is that target; otherwise, if the candidate end edge-snaps, the
\* stored end is that target and the stored start is the end minus the
\* duration; otherwise the stored start is the grid-snapped candidate start.
C26_MoveSnapPrecedence ==
    [][TickStep("move") =>
          LET start == parseTime(Dragged'.startTime)
              end == parseTime(Dragged'.endTime)
              duration == dragState.initialEndTime - dragState.initialStartTime
          IN  IF MoveStartSnap.snapped THEN start = MoveStartSnap.time
              ELSE IF MoveEndSnap.snapped
                   THEN end = MoveEndSnap.time /\ start = end - duration
              ELSE start = snapToGrid(MoveRawStart, gridSnapInterval, gridSnap)
      ]_vars

\* the edge snap of an edge tick's candidate, and whether a left tick is
\* dropped
EdgeTickSnap ==
    performEdgeSnap(segments, RawCandidate(dragState, lastOp'.n), dragState.segmentId)

LeftTickDropped ==
    performSnap(segments, RawCandidate(dragState, lastOp'.n), dragState.segmentId)
        >= dragState.initialEndTime - minDuration

\* the guides a whole-move tick shows
MoveGuides ==
    IF MoveStartSnap.snapped THEN <<MoveStartSnap.time>>
    ELSE IF MoveEndSnap.snapped THEN <<MoveEndSnap.time>>
    ELSE <<>>

\* C27 as stated: after every tick the guide list holds the edge-snapped time
\* if the tick's candidate edge-snapped (left: start; right: end; move:
\* start or end) and is empty otherwise.
C27_Original ==
    [][/\ TickStep("left") \/ TickStep("right") =>
              snapGuides' = IF EdgeTickSnap.snapped THEN <<EdgeTickSnap.time>> ELSE <<>>
       /\ TickStep("move") => snapGuides' = MoveGuides
      ]_vars

\* C27: after every tick the guide list holds the edge-snapped time if the
\* tick's candidate edge-snapped (left: start, on a tick that is not
\* dropped; right: end; move: start or end) and is empty otherwise; a
\* dropped left tick leaves it empty.
C27_GuidesFollowEdgeSnap ==
    [][/\ TickStep("left") =>
              snapGuides' = IF EdgeTickSnap.snapped /\ ~LeftTickDropped
                            THEN <<EdgeTickSnap.time>> ELSE <<>>
       /\ TickStep("right") =>
              snapGuides' = IF EdgeTickSnap.snapped THEN <<EdgeTickSnap.time>> ELSE <<>>
       /\ TickStep("move") => snapGuides' = MoveGuides
      ]_vars

\* the start of segment 1 was taken to 1.3 s, which snaps to the start of
\* segment 2 at 1.4 s: the tick is dropped and shows no guide
C27_Witness ==
    /\ lastOp.op = "mousemove"
    /\ lastOp.b = "left"
    /\ dragLineSnap
    /\ dragState.initialStartTime = 20
    /\ lastOp.n = 110
    /\ performEdgeSnap(segments, 130, dragState.segmentId) = [time |-> 140, snapped |-> TRUE]
    /\ snapGuides = <<>>

----------------------------------------------------------------------------
(* Claims about the context menu *)

\* the segment the step split, before the step, and twice its midpoint
SplitTarget == FindSegment(segments, lastOp'.a)

TwiceMid == parseTime(SplitTarget.startTime) + parseTime(SplitTarget.endTime)

\* the step is a split that wrote endText as the end of the target and
\* startText as the start of the added segment: two history entries, the
\* first the state before the split, the second that state with the target
\* ending at endText; the added segment has the target's speaker; one undo()
\* gives the second entry back, which is not the state before the split
SplitInTwoSteps(endText, startText) ==
    LET shrunk == updateSegment(St, lastOp'.a, [endTime |-> endText])
        added == FindSegment(segments', lastOp'.b)
    IN  /\ past' = past \o <<HistoryEntry(St), HistoryEntry(shrunk)>>
        /\ Len(segments') = Len(segments) + 1
        /\ added.startTime = startText
        /\ added.speakerId = SplitTarget.speakerId
        /\ FindSegment(segments', lastOp'.a) = FindSegment(shrunk.segments, lastOp'.a)
        /\ undo(St').segments = shrunk.segments
        /\ undo(St').segments # segments
        /\ Len(undo(St').past) = Len(past) + 1

\* C24 as stated: split-at-center is updateSegment setting the target's end
\* to the midpoint m = (s + e) / 2, then addSegment adding a segment that
\* starts at m; past grows by two entries and one undo() removes the added
\* segment only.
C24_Original ==
    [][lastOp'.op = "splitAtCenter" =>
          \E endText, startText \in {formatTime(t) : t \in 0..500} :
              /\ 2 * parseTime(endText) = TwiceMid
              /\ 2 * parseTime(startText) = TwiceMid
              /\ SplitInTwoSteps(endText, startText)
      ]_vars

\* C24: split-at-center is updateSegment setting the target's end to the
\* text of the midpoint, which is the midpoint rounded to a tenth of a
\* second, then addSegment adding a segment that starts at that same text;
\* past grows by two entries and one undo() removes the added segment only.
C24_SplitIsTwoMutations ==
    [][lastOp'.op = "splitAtCenter" =>
          LET text == formatTime(TwiceMid \div 2)
          IN  /\ parseTime(text) % 10 = 0
              /\ Abs(2 * parseTime(text) - TwiceMid) <= 10
              /\ SplitInTwoSteps(text, text)
      ]_vars

\* 00:00.2-00:01.5 was split: the midpoint 0.85 s is written as 00:00.9
C24_Witness ==
    /\ lastOp.op = "splitAtCenter"
    /\ Len(past) = 2
    /\ past[1].segments[1].startTime = T(0, 20)
    /\ past[1].segments[1].endTime = T(0, 150)
    /\ FindSegment(segments, "1").endTime = T(0, 90)
    /\ FindSegment(segments, lastOp.b).startTime = T(0, 90)

----------------------------------------------------------------------------
(* Claims about scrolling *)

\* a step in which the effect "auto-scroll timeline when playing" calls scrollTo
PlaybackScrolls ==
    /\ lastOp'.op \in {"togglePlay", "setCurrentTime"}
    /\ isPlaying'

\* C17: the playback-driven scroll, which centers the view on the playhead,
\* sets the scroll position of the timeline only while no segment drag is
\* active.
C17_PlaybackScrollOnlyIdle == [][PlaybackScrolls => dragState = NoDrag]_vars

\* the pointer's distance from the left edge of the container in a
\* pointer-move step, and whether it is in neither auto-scroll zone
RelativeX == dragState.initialX + lastOp'.m - scrollLeft

OutsideZones ==
    /\ RelativeX >= autoScrollZone
    /\ RelativeX <= containerWidth - autoScrollZone

FrameTracked ==
    /\ Cardinality(frames) <= 1
    /\ \A f \in frames : f.handle = autoScrollRef

\* C18: at most one auto-scroll frame callback is pending and autoScrollRef
\* holds its handle; after pointer-up, and after a pointer-move with the
\* pointer outside both auto-scroll zones, none is pending; and none becomes
\* pending except by a pointer-move of a drag with the pointer in a zone.
C18_AutoScrollCancelled ==
    [][/\ FrameTracked'
       /\ lastOp'.op = "mouseup" => frames' = {}
       /\ lastOp'.op = "mousemove" /\ OutsideZones => frames' = {}
       /\ frames = {} /\ frames' # {} =>
              lastOp'.op = "mousemove" /\ ~OutsideZones /\ dragState' # NoDrag
      ]_vars

----------------------------------------------------------------------------
(* Claims about the time codec *)

\* C21: for every whole number n of seconds, n >= 0, also of an hour and
\* more, parseTime(formatTime(n)) = n.
C21_RoundTripWholeSeconds ==
    codec.fn = "parseTime" /\ codec.seconds >= 0 /\ codec.seconds % 100 = 0 =>
        codec.parsed = codec.seconds

\* 3661 s is written "61:01" and read back
C21_Witness ==
    /\ codec.fn = "parseTime"
    /\ codec.seconds = 366100
    /\ codec.text = T(61, 100)
    /\ codec.parsed = 366100

----------------------------------------------------------------------------
(* Claims about the store, the roster and the selection *)

\* every value occurs as often in s as in t
SameEntries(s, t) ==
    /\ Len(s) = Len(t)
    /\ \A x \in Range(s) \cup Range(t) :
          Cardinality({i \in DOMAIN s : s[i] = x})
              = Cardinality({i \in DOMAIN t : t[i] = x})

\* C22: for any fromIndex and toIndex, reorderSpeakers leaves every segment
\* unchanged and the roster with the same speakers as before, as many as
\* before, the speaker that was at fromIndex now at position toIndex.
C22_ReorderOnlyReorders ==
    [][lastOp'.op = "reorderSpeakers" =>
          /\ segments' = segments
          /\ SameEntries(speakers', speakers)
          /\ lastOp'.m \in 0..(Len(speakers) - 1) =>
                 /\ lastOp'.n \in 0..(Len(speakers') - 1)
                 /\ speakers'[lastOp'.n + 1] = speakers[lastOp'.m + 1]
      ]_vars


RECURSIVE RedoN(_, _)
\* the store after k calls of redo()
RedoN(st, k) == IF k = 0 THEN st ELSE RedoN(redo(st), k - 1)

\* the part of the store that history is about
Timeline4(st) == <<st.segments, st.speakers, st.past, st.future>>

\* the store after as many undo() as there are entries in past
UndoAll(st) == UndoN(st, Len(st.past))

\* C28: in every state reached, for every k <= |past|, k undo() followed by
\* k redo() restore segments, speakers, past and future; undo() and redo()
\* leave |past| + |future| unchanged and move one entry when their stack is
\* not empty; and undoing the whole past gives the segments and speakers the
\* history started from, with canUndo() false.
C28_UndoRedoRoundTrip ==
    [][/\ \A k \in 0..Len(past') :
              Timeline4(RedoN(UndoN(St', k), k)) = Timeline4(St')
       /\ lastOp'.op \in {"undo", "redo"} =>
              Len(past') + Len(future') = Len(past) + Len(future)
       /\ lastOp'.op = "undo" /\ canUndo(St) =>
              Len(past') = Len(past) - 1 /\ Len(future') = Len(future) + 1
       /\ lastOp'.op = "redo" /\ canRedo(St) =>
              Len(past') = Len(past) + 1 /\ Len(future') = Len(future) - 1
       /\ UndoAll(St').segments = UndoAll(St).segments
       /\ UndoAll(St').speakers = UndoAll(St).speakers
       /\ ~canUndo(UndoAll(St'))
      ]_vars

\* two mutations were undone and redone: the store is back at the second
\* mutation's result, which differs from the state the history started from
C28_Witness ==
    /\ lastOp.op = "redo"
    /\ Len(past) >= 2
    /\ future = <<>>
    /\ Timeline4(RedoN(UndoN(St, Len(past)), Len(past))) = Timeline4(St)
    /\ <<UndoAll(St).segments, UndoAll(St).speakers>> # <<segments, speakers>>
    /\ past[1] # past[2]


\* every segment's speakerId is the id of a speaker of the roster
RefsOk(st) ==
    \A i \in 1..Len(st.segments) : st.segments[i].speakerId \in RosterIds(st)

\* C29: from a project whose segments all name roster speakers, every
\* sequence of addSegment (speaker left out or from the roster),
\* deleteSegment, deleteSpeaker, mergeSpeakers into a roster speaker,
\* updateSpeaker of the name, reorderSpeakers within range, undo and redo
\* leaves every segment's speakerId the id of a roster speaker.
C29_ReferentialIntegrity == RefsOk(St)


\* C30: in every state reached by setSelectedSegmentId on a segment of the
\* store, addSegment, deleteSegment, deleteSpeaker, setProjectData, undo and
\* redo, selectedSegmentId is null or the id of a segment of the store.
C30_SelectionExists ==
    selectedSegmentId = Null \/ \E i \in 1..Len(segments) : segments[i].id = selectedSegmentId

====
